---- MODULE Spec2Model ----
(***************************************************************************)
(* Model of the two fixture scripts of processutils.tests:                 *)
(*   encode_base64.py  - print the Base64 text of a file                   *)
(*   test_sleep.py     - sleep for argv[1] (default 5) seconds, print done *)
(* Each script is a sequential process; one action per statement.          *)
(* Text is a sequence of one-character strings, bytes are 0..255.          *)
(***************************************************************************)
EXTENDS Integers, Sequences, FiniteSets, TLC

VARIABLES
    argv,       \* sys.argv: <<program name, arguments...>>, each a char sequence
    fs,         \* the file system entry of every path an argument can name
    pc,         \* the statement the process is at
    data,       \* encode_base64.py: the bytes read from the file
    opened,     \* encode_base64.py: number of open() calls made
    seconds,    \* test_sleep.py: the parsed (or default) duration
    uptime,     \* test_sleep.py: the monotonic clock when the process starts
    sleepCalls, \* test_sleep.py: number of time.sleep calls made
    elapsed,    \* test_sleep.py: seconds the process has spent blocked
    stdout,     \* characters written to standard output
    stderr,     \* name of the uncaught exception reported on standard error
    exitCode    \* process exit status, -1 while running

vars == <<argv, fs, pc, data, opened, seconds, uptime, sleepCalls, elapsed,
          stdout, stderr, exitCode>>

(***************************************************************************)
(* Bounds of the model.                                                    *)
(***************************************************************************)
MaxFileLen == 3
MaxArgLen == 3
MaxUptime == 1

\* the byte values files are built from
Bytes == {0, 1, 2, 77, 255}

RECURSIVE SeqsUpTo(_, _)
SeqsUpTo(S, n) ==
    IF n = 0 THEN {<<>>}
    ELSE LET shorter == SeqsUpTo(S, n - 1)
         IN  shorter \cup {Append(s, x) : s \in {t \in shorter : Len(t) = n - 1}, x \in S}

LF == "\n"

(***************************************************************************)
(* Python integers are unbounded; the values that matter here exceed 2^31, *)
(* so an integer is a sign and a magnitude hi * Base + lo.                 *)
(***************************************************************************)
Base == 100 * 1000

BigNat(n) == [neg |-> FALSE, hi |-> n \div Base, lo |-> n % Base]

NoBig == BigNat(0)

\* sum of two non-negative values
BigAdd(a, b) ==
    LET t == a.lo + b.lo
    IN  [neg |-> FALSE, hi |-> a.hi + b.hi + t \div Base, lo |-> t % Base]

\* comparison of magnitudes
MagLess(a, b) == a.hi < b.hi \/ (a.hi = b.hi /\ a.lo < b.lo)

(***************************************************************************)
(* bytes.decode("ascii"): code points 32..126 and the line feed; any byte  *)
(* above 127 raises UnicodeDecodeError.  Code 96 is written "grave".       *)
(***************************************************************************)
AsciiPrintable ==
    <<" ", "!", "\"", "#", "$", "%", "&", "'", "(", ")", "*", "+", ",", "-", ".", "/",
      "0", "1", "2", "3", "4", "5", "6", "7", "8", "9", ":", ";", "<", "=", ">", "?",
      "@", "A", "B", "C", "D", "E", "F", "G", "H", "I", "J", "K", "L", "M", "N", "O",
      "P", "Q", "R", "S", "T", "U", "V", "W", "X", "Y", "Z", "[", "\\", "]", "^", "_",
      "grave", "a", "b", "c", "d", "e", "f", "g", "h", "i", "j", "k", "l", "m", "n", "o",
      "p", "q", "r", "s", "t", "u", "v", "w", "x", "y", "z", "{", "|", "}", "~">>

AsciiChar(b) ==
    IF b >= 32 /\ b <= 126 THEN AsciiPrintable[b - 31]
    ELSE IF b = 10 THEN LF
    ELSE "?"

decode_ascii(bs) ==
    IF \E i \in 1..Len(bs) : bs[i] > 127 THEN <<"UnicodeDecodeError">>
    ELSE [i \in 1..Len(bs) |-> AsciiChar(bs[i])]

(***************************************************************************)
(* base64.b64encode: RFC 4648 standard alphabet, "=" (61) padding, no line *)
(* breaks.                                                                 *)
(* The result is a bytes object: a sequence of ASCII codes.                *)
(***************************************************************************)
B64Byte(i) ==
    IF i < 26 THEN 65 + i
    ELSE IF i < 52 THEN 97 + (i - 26)
    ELSE IF i < 62 THEN 48 + (i - 52)
    ELSE IF i = 62 THEN 43
    ELSE 47

\* the 24-bit group of up to three bytes, missing bytes taken as zero
Group24(d) ==
    d[1] * 65536 + (IF Len(d) >= 2 THEN d[2] * 256 ELSE 0) + (IF Len(d) >= 3 THEN d[3] ELSE 0)

\* a faulty variant of b64encode: the final padding characters are left out
RECURSIVE b64encode_NoPad(_)
b64encode_NoPad(d) ==
    IF Len(d) = 0 THEN <<>>
    ELSE LET n  == Group24(d)
             c1 == B64Byte(n \div 262144)
             c2 == B64Byte((n \div 4096) % 64)
             c3 == B64Byte((n \div 64) % 64)
             c4 == B64Byte(n % 64)
         IN  IF Len(d) = 1 THEN <<c1, c2>>
             ELSE IF Len(d) = 2 THEN <<c1, c2, c3>>
             ELSE <<c1, c2, c3, c4>> \o b64encode_NoPad(SubSeq(d, 4, Len(d)))

RECURSIVE b64encode(_)
b64encode(d) ==
    IF Len(d) = 0 THEN <<>>
    ELSE LET n  == Group24(d)
             c1 == B64Byte(n \div 262144)
             c2 == B64Byte((n \div 4096) % 64)
             c3 == B64Byte((n \div 64) % 64)
             c4 == B64Byte(n % 64)
         IN  IF Len(d) = 1 THEN <<c1, c2, 61, 61>>
             ELSE IF Len(d) = 2 THEN <<c1, c2, c3, 61>>
             ELSE <<c1, c2, c3, c4>> \o b64encode(SubSeq(d, 4, Len(d)))

(***************************************************************************)
(* The file system seen by open(path, "rb").                               *)
(***************************************************************************)
ProgName == <<"p", "y">>
InPath == <<"i", "n">>
Extra == <<"x">>
Paths == {InPath}

Absent == [kind |-> "absent", bytes |-> <<>>]
Denied == [kind |-> "denied", bytes |-> <<>>]
Directory == [kind |-> "dir", bytes |-> <<>>]
RegularFile(b) == [kind |-> "file", bytes |-> b]

Entries ==
    {Absent, Denied, Directory} \cup {RegularFile(b) : b \in SeqsUpTo(Bytes, MaxFileLen)}

\* the exception open() raises for an entry that is not a readable file
OpenError(e) ==
    IF e.kind = "absent" THEN "FileNotFoundError"
    ELSE IF e.kind = "denied" THEN "PermissionError"
    ELSE "IsADirectoryError"

(***************************************************************************)
(* encode_base64.py                                                        *)
(***************************************************************************)
EncInit ==
    /\ argv \in {<<ProgName>>, <<ProgName, InPath>>, <<ProgName, InPath, Extra>>}
    /\ fs \in [Paths -> Entries]
    /\ pc = "start"
    /\ data = <<>>
    /\ opened = 0
    /\ seconds = NoBig
    /\ uptime = NoBig
    /\ sleepCalls = 0
    /\ elapsed = NoBig
    /\ stdout = <<>>
    /\ stderr = ""
    /\ exitCode = -1

\* an uncaught exception: traceback on standard error, exit status 1
Raise(exc) ==
    /\ pc' = "exited"
    /\ stderr' = exc
    /\ exitCode' = 1

\* a faulty variant of EncNoArgs: print("") without end=""
EncNoArgs_Newline ==
    /\ pc = "start"
    /\ Len(argv) < 2
    /\ stdout' = stdout \o <<LF>>
    /\ pc' = "exited"
    /\ exitCode' = 0
    /\ UNCHANGED <<argv, fs, data, opened, seconds, uptime, sleepCalls, elapsed, stderr>>

\* if len(sys.argv) < 2: print("", end=""); sys.exit(0)
EncNoArgs ==
    /\ pc = "start"
    /\ Len(argv) < 2
    /\ stdout' = stdout \o <<>>
    /\ pc' = "exited"
    /\ exitCode' = 0
    /\ UNCHANGED <<argv, fs, data, opened, seconds, uptime, sleepCalls, elapsed, stderr>>

\* a faulty variant of EncOpenFail: the error is swallowed and the script goes on
EncOpenFail_Swallow ==
    /\ pc = "start"
    /\ Len(argv) >= 2
    /\ fs[argv[2]].kind # "file"
    /\ opened' = opened + 1
    /\ pc' = "print"
    /\ UNCHANGED <<argv, fs, data, seconds, uptime, sleepCalls, elapsed, stdout, stderr,
                   exitCode>>

\* path = sys.argv[1]; open(path, "rb") raises
EncOpenFail ==
    /\ pc = "start"
    /\ Len(argv) >= 2
    /\ fs[argv[2]].kind # "file"
    /\ opened' = opened + 1
    /\ Raise(OpenError(fs[argv[2]]))
    /\ UNCHANGED <<argv, fs, data, seconds, uptime, sleepCalls, elapsed, stdout>>

\* path = sys.argv[1]; with open(path, "rb") as f:
EncOpen ==
    /\ pc = "start"
    /\ Len(argv) >= 2
    /\ fs[argv[2]].kind = "file"
    /\ opened' = opened + 1
    /\ pc' = "read"
    /\ UNCHANGED <<argv, fs, data, seconds, uptime, sleepCalls, elapsed, stdout, stderr,
                   exitCode>>

\* data = f.read()
EncRead ==
    /\ pc = "read"
    /\ data' = fs[argv[2]].bytes
    /\ pc' = "print"
    /\ UNCHANGED <<argv, fs, opened, seconds, uptime, sleepCalls, elapsed, stdout, stderr,
                   exitCode>>

\* print(base64.b64encode(data).decode("ascii")), then the script ends
EncPrint ==
    /\ pc = "print"
    /\ stdout' = stdout \o decode_ascii(b64encode(data)) \o <<LF>>
    /\ pc' = "exited"
    /\ exitCode' = 0
    /\ UNCHANGED <<argv, fs, data, opened, seconds, uptime, sleepCalls, elapsed, stderr>>

EncNext ==
    \/ EncNoArgs
    \/ EncOpenFail
    \/ EncOpen
    \/ EncRead
    \/ EncPrint

EncSpec == EncInit /\ [][EncNext]_vars

(***************************************************************************)
(* int(str): surrounding whitespace is stripped, an optional sign, then    *)
(* decimal digits that single underscores may separate.                    *)
(***************************************************************************)
Digits == <<"0", "1", "2", "3", "4", "5", "6", "7", "8", "9">>

IsDigit(c) == \E i \in 1..10 : Digits[i] = c

DigitVal(c) == (CHOOSE i \in 1..10 : Digits[i] = c) - 1

IsSpace(c) == c \in {" ", "\t", "\r", LF}

\* positions of the characters that are not whitespace
Inked(s) == {i \in 1..Len(s) : ~IsSpace(s[i])}

Min(S) == CHOOSE x \in S : \A y \in S : x <= y

Max(S) == CHOOSE x \in S : \A y \in S : x >= y

\* str.strip()
Strip(s) == IF Inked(s) = {} THEN <<>> ELSE SubSeq(s, Min(Inked(s)), Max(Inked(s)))

HasSign(s) == Len(s) > 0 /\ s[1] \in {"+", "-"}

\* the literal without whitespace and sign
Unsigned(s) == IF HasSign(Strip(s)) THEN Tail(Strip(s)) ELSE Strip(s)

IsIntLiteral(s) ==
    LET b == Unsigned(s)
    IN  /\ Len(b) > 0
        /\ \A i \in 1..Len(b) : IsDigit(b[i]) \/ b[i] = "_"
        /\ b[1] # "_"
        /\ b[Len(b)] # "_"
        /\ \A i \in 1..(Len(b) - 1) : ~(b[i] = "_" /\ b[i + 1] = "_")

\* the number the first k digits of ds spell
RECURSIVE NatOf(_, _)
NatOf(ds, k) == IF k = 0 THEN 0 ELSE NatOf(ds, k - 1) * 10 + DigitVal(ds[k])

\* the value of a digit string: the last five digits are lo, the rest hi
Magnitude(b) ==
    LET ds == SelectSeq(b, IsDigit)
        n  == Len(ds)
    IN  IF n <= 5 THEN [neg |-> FALSE, hi |-> 0, lo |-> NatOf(ds, n)]
        ELSE [neg |-> FALSE, hi |-> NatOf(ds, n - 5), lo |-> NatOf(SubSeq(ds, n - 4, n), 5)]

\* int(s) for a valid literal s
IntOf(s) ==
    LET m == Magnitude(Unsigned(s))
    IN  [m EXCEPT !.neg = Strip(s)[1] = "-" /\ m # NoBig]

(***************************************************************************)
(* time.sleep(secs) on CPython/Linux: the duration is converted to signed  *)
(* 64-bit nanoseconds (OverflowError beyond 9223372036 s), a negative one  *)
(* is refused (ValueError), and the kernel refuses a wake-up time of       *)
(* 9223372036 s or more on the monotonic clock (OSError).                  *)
(***************************************************************************)
SleepLimit == [neg |-> FALSE, hi |-> 92233, lo |-> 72036]

\* a faulty variant of SleepError: a negative duration is taken as no delay
SleepError_NegativeIsZero(secs, now) ==
    IF MagLess(SleepLimit, secs) THEN "OverflowError"
    ELSE IF secs.neg THEN ""
    ELSE IF ~MagLess(BigAdd(now, secs), SleepLimit) THEN "OSError"
    ELSE ""

\* the exception time.sleep raises at once, "" when it blocks
SleepError(secs, now) ==
    IF MagLess(SleepLimit, secs) THEN "OverflowError"
    ELSE IF secs.neg THEN "ValueError"
    ELSE IF ~MagLess(BigAdd(now, secs), SleepLimit) THEN "OSError"
    ELSE ""

(***************************************************************************)
(* test_sleep.py                                                           *)
(***************************************************************************)
DefaultSeconds == 5

ArgChars == {"0", "2", "-", "+", " ", "_", "a"}

Chars(digits) == [i \in 1..Len(digits) |-> Digits[digits[i] + 1]]

\* arguments around the range of time.sleep
BoundaryArgs ==
    { Chars(<<5>>),
      Chars(<<9, 2, 2, 3, 3, 7, 2, 0, 3, 4>>),
      Chars(<<9, 2, 2, 3, 3, 7, 2, 0, 3, 5>>),
      Chars(<<9, 2, 2, 3, 3, 7, 2, 0, 3, 6>>),
      Chars(<<9, 2, 2, 3, 3, 7, 2, 0, 3, 7>>),
      <<"-">> \o Chars(<<9, 2, 2, 3, 3, 7, 2, 0, 3, 7>>),
      Chars(<<1, 0, 0, 0, 0, 0, 0, 0, 0, 0, 0>>) }

SleepArgs == SeqsUpTo(ArgChars, MaxArgLen) \cup BoundaryArgs

Done == <<"d", "o", "n", "e", LF>>

SleepInit ==
    /\ argv \in {<<ProgName>>} \cup {<<ProgName, a>> : a \in SleepArgs}
                \cup {<<ProgName, a, Extra>> : a \in BoundaryArgs}
    /\ fs = [p \in Paths |-> Absent]
    /\ pc = "start"
    /\ data = <<>>
    /\ opened = 0
    /\ seconds = NoBig
    /\ uptime \in {BigNat(u) : u \in 0..MaxUptime}
    /\ sleepCalls = 0
    /\ elapsed = NoBig
    /\ stdout = <<>>
    /\ stderr = ""
    /\ exitCode = -1

\* seconds = ... else 5
SleepDefault ==
    /\ pc = "start"
    /\ ~(Len(argv) > 1)
    /\ seconds' = BigNat(DefaultSeconds)
    /\ pc' = "sleep"
    /\ UNCHANGED <<argv, fs, data, opened, uptime, sleepCalls, elapsed, stdout, stderr,
                   exitCode>>

\* a faulty variant of SleepParse: the default replaces the argument
SleepParse_Default ==
    /\ pc = "start"
    /\ Len(argv) > 1
    /\ IsIntLiteral(argv[2])
    /\ seconds' = BigNat(DefaultSeconds)
    /\ pc' = "sleep"
    /\ UNCHANGED <<argv, fs, data, opened, uptime, sleepCalls, elapsed, stdout, stderr,
                   exitCode>>

\* seconds = int(sys.argv[1]) if len(sys.argv) > 1
SleepParse ==
    /\ pc = "start"
    /\ Len(argv) > 1
    /\ IsIntLiteral(argv[2])
    /\ seconds' = IntOf(argv[2])
    /\ pc' = "sleep"
    /\ UNCHANGED <<argv, fs, data, opened, uptime, sleepCalls, elapsed, stdout, stderr,
                   exitCode>>

\* a faulty variant of SleepParseFail: a bad argument falls back to the default
SleepParseFail_Default ==
    /\ pc = "start"
    /\ Len(argv) > 1
    /\ ~IsIntLiteral(argv[2])
    /\ seconds' = BigNat(DefaultSeconds)
    /\ pc' = "sleep"
    /\ UNCHANGED <<argv, fs, data, opened, uptime, sleepCalls, elapsed, stdout, stderr,
                   exitCode>>

\* int(sys.argv[1]) raises ValueError
SleepParseFail ==
    /\ pc = "start"
    /\ Len(argv) > 1
    /\ ~IsIntLiteral(argv[2])
    /\ Raise("ValueError")
    /\ UNCHANGED <<argv, fs, data, opened, seconds, uptime, sleepCalls, elapsed, stdout>>

\* time.sleep(seconds) raises
SleepCallFail ==
    /\ pc = "sleep"
    /\ SleepError(seconds, uptime) # ""
    /\ sleepCalls' = sleepCalls + 1
    /\ Raise(SleepError(seconds, uptime))
    /\ UNCHANGED <<argv, fs, data, opened, seconds, uptime, elapsed, stdout>>

\* time.sleep(seconds) is entered and blocks
SleepCall ==
    /\ pc = "sleep"
    /\ SleepError(seconds, uptime) = ""
    /\ sleepCalls' = sleepCalls + 1
    /\ pc' = "sleeping"
    /\ UNCHANGED <<argv, fs, data, opened, seconds, uptime, elapsed, stdout, stderr,
                   exitCode>>

\* time.sleep(seconds) returns once the duration has passed
SleepReturn ==
    /\ pc = "sleeping"
    /\ elapsed' = BigAdd(elapsed, seconds)
    /\ pc' = "print"
    /\ UNCHANGED <<argv, fs, data, opened, seconds, uptime, sleepCalls, stdout, stderr,
                   exitCode>>

\* a faulty variant of SleepPrint: done is printed without waiting for the sleep
SleepPrint_Early ==
    /\ pc \in {"sleep", "sleeping", "print"}
    /\ stdout' = stdout \o Done
    /\ pc' = "exited"
    /\ exitCode' = 0
    /\ UNCHANGED <<argv, fs, data, opened, seconds, uptime, sleepCalls, elapsed, stderr>>

\* a faulty variant of SleepPrint: done is printed twice
SleepPrint_Twice ==
    /\ pc = "print"
    /\ stdout' = stdout \o Done \o Done
    /\ pc' = "exited"
    /\ exitCode' = 0
    /\ UNCHANGED <<argv, fs, data, opened, seconds, uptime, sleepCalls, elapsed, stderr>>

\* print("done"), then the script ends
SleepPrint ==
    /\ pc = "print"
    /\ stdout' = stdout \o Done
    /\ pc' = "exited"
    /\ exitCode' = 0
    /\ UNCHANGED <<argv, fs, data, opened, seconds, uptime, sleepCalls, elapsed, stderr>>

SleepNext ==
    \/ SleepDefault
    \/ SleepParse
    \/ SleepParseFail
    \/ SleepCallFail
    \/ SleepCall
    \/ SleepReturn
    \/ SleepPrint

SleepSpec == SleepInit /\ [][SleepNext]_vars

\* the process is the only thread and runs whenever it can take a step
SleepFairSpec == SleepSpec /\ WF_vars(SleepNext)

(***************************************************************************)
(* Properties of encode_base64.py                                          *)
(***************************************************************************)
OneReadableFile == Len(argv) = 2 /\ fs[argv[2]].kind = "file"

\* the Base64 text of a byte sequence, as characters
B64Text(b) == decode_ascii(b64encode(b))

\* C1: invoked with one argument naming a readable file, the encoder's whole
\* standard output is exactly the Base64 text of the file's bytes with nothing
\* after it (no trailing newline), and it exits 0; bytes 00 01 02 give AAEC.
C1_ExactBase64NoNewline ==
    (pc = "exited" /\ OneReadableFile) =>
        /\ stdout = B64Text(fs[argv[2]].bytes)
        /\ exitCode = 0
        /\ (fs[argv[2]].bytes = <<0, 1, 2>> => stdout = <<"A", "A", "E", "C">>)

(***************************************************************************)
(* base64.b64decode as a reader of the output uses it: characters outside  *)
(* the alphabet (the line feed among them) are discarded, then every four  *)
(* characters give up to three bytes; <<-1>> stands for binascii.Error.    *)
(***************************************************************************)
IsB64Char(c) == \E i \in 0..63 : AsciiChar(B64Byte(i)) = c

B64Index(c) == CHOOSE i \in 0..63 : AsciiChar(B64Byte(i)) = c

RECURSIVE DecodeQuads(_)
DecodeQuads(q) ==
    IF Len(q) = 0 THEN <<>>
    ELSE IF Len(q) < 4 \/ q[1] = "=" \/ q[2] = "=" THEN <<-1>>
    ELSE LET i1 == B64Index(q[1])
             i2 == B64Index(q[2])
             b1 == i1 * 4 + i2 \div 16
         IN  IF q[3] = "="
             THEN IF q[4] = "=" THEN <<b1>> ELSE <<-1>>
             ELSE LET i3 == B64Index(q[3])
                      b2 == (i2 % 16) * 16 + i3 \div 4
                  IN  IF q[4] = "=" THEN <<b1, b2>>
                      ELSE <<b1, b2, (i3 % 4) * 64 + B64Index(q[4])>>
                           \o DecodeQuads(SubSeq(q, 5, Len(q)))

KeepB64(c) == IsB64Char(c) \/ c = "="

b64decode(text) == DecodeQuads(SelectSeq(text, KeepB64))

\* C2: for every file content B, also empty or of a length not divisible by 3,
\* Base64-decoding what the encoder wrote to standard output gives back B.
C2_RoundTrip ==
    (pc = "exited" /\ Len(argv) >= 2 /\ fs[argv[2]].kind = "file") =>
        b64decode(stdout) = fs[argv[2]].bytes

C2_Witness ==
    /\ pc = "exited"
    /\ Len(argv) >= 2
    /\ fs[argv[2]] = RegularFile(<<255, 77>>)
    /\ stdout # <<>>

\* C4: given a path that does not exist or cannot be read, the encoder writes
\* nothing to standard output and exits with a non-zero status.
C4_UnreadableFailsFast ==
    (Len(argv) >= 2 /\ fs[argv[2]].kind # "file") =>
        /\ stdout = <<>>
        /\ pc \in {"start", "exited"}
        /\ (pc = "exited" => exitCode # 0 /\ stderr # "")

C4_Witness ==
    /\ pc = "exited"
    /\ Len(argv) >= 2
    /\ fs[argv[2]] = Absent
    /\ stderr = "FileNotFoundError"
    /\ exitCode = 1

\* C6: invoked with zero arguments the encoder writes nothing to standard
\* output, opens no file and exits 0.
C6_NoArgsNoOutput ==
    (Len(argv) < 2) =>
        /\ stdout = <<>>
        /\ opened = 0
        /\ pc \in {"start", "exited"}
        /\ (pc = "exited" => exitCode = 0 /\ stderr = "")

C6_Witness == pc = "exited" /\ Len(argv) = 1 /\ exitCode = 0

\* C7: given an existing empty file, the encoder's standard output is the empty
\* string and the exit status is 0.
C7_EmptyFileEmptyOutput ==
    (pc = "exited" /\ Len(argv) >= 2 /\ fs[argv[2]] = RegularFile(<<>>)) =>
        stdout = <<>> /\ exitCode = 0

(***************************************************************************)
(* Properties of test_sleep.py                                             *)
(***************************************************************************)
\* the duration the script asks for
Requested == IF Len(argv) > 1 THEN IntOf(argv[2]) ELSE BigNat(DefaultSeconds)

\* C3: done is printed only after the blocking wait for the requested duration
\* has completed; nothing reaches the print without passing through the sleep.
C3_DoneOnlyAfterSleep ==
    (pc = "print" \/ stdout # <<>>) =>
        /\ sleepCalls = 1
        /\ elapsed = seconds
        /\ pc \in {"print", "exited"}
        /\ (stdout # <<>> => stdout = Done /\ pc = "exited")

C3_Witness ==
    /\ stdout = Done
    /\ argv = <<ProgName, <<"2">>>>
    /\ elapsed = BigNat(2)

\* C5: an argument that does not parse as an integer makes the process exit
\* non-zero without printing done and before any sleep is started.
C5_BadArgumentFails ==
    (Len(argv) > 1 /\ ~IsIntLiteral(argv[2])) =>
        /\ stdout = <<>>
        /\ sleepCalls = 0
        /\ elapsed = NoBig
        /\ pc \in {"start", "exited"}
        /\ (pc = "exited" => exitCode # 0 /\ stderr = "ValueError")

C5_Witness ==
    /\ pc = "exited"
    /\ argv = <<ProgName, <<"a", "a", "a">>>>
    /\ exitCode = 1

\* the argument is a non-negative integer
NonNegativeArg == Len(argv) > 1 /\ IsIntLiteral(argv[2]) /\ ~IntOf(argv[2]).neg

\* C8 as stated: for every non-negative integer argument the sleeper ends with
\* one sleep of n seconds, standard output exactly done and exit status 0.
C8_EveryNonNegative ==
    (pc = "exited" /\ NonNegativeArg) =>
        /\ stdout = Done
        /\ exitCode = 0
        /\ sleepCalls = 1
        /\ elapsed = IntOf(argv[2])

\* the argument is a non-negative integer that time.sleep accepts
AcceptedArg == NonNegativeArg /\ SleepError(IntOf(argv[2]), uptime) = ""

C8_Safety ==
    AcceptedArg =>
        /\ stdout \in {<<>>, Done}
        /\ sleepCalls <= 1
        /\ (pc = "exited" =>
                /\ stdout = Done
                /\ exitCode = 0
                /\ sleepCalls = 1
                /\ elapsed = IntOf(argv[2]))

\* C8, amended: for every non-negative integer argument within the range of
\* time.sleep the sleeper eventually terminates, having slept once for n
\* seconds, with standard output exactly one done line and exit status 0.
C8_AcceptedTerminates == []C8_Safety /\ (AcceptedArg ~> pc = "exited")

C8_Witness ==
    /\ pc = "exited"
    /\ argv = <<ProgName, <<"0">>>>
    /\ stdout = Done
    /\ exitCode = 0

\* C9: the wait lasts exactly 5 seconds when no argument is given and exactly
\* the integer value of the first argument otherwise; the default is never
\* used when an argument is present.
C9_DurationIsArgumentOrDefault ==
    /\ (pc \in {"sleep", "sleeping", "print"} \/ stdout # <<>>) => seconds = Requested
    /\ (pc = "print" \/ stdout # <<>>) =>
          /\ elapsed = Requested
          /\ (Len(argv) = 1 => elapsed = [neg |-> FALSE, hi |-> 0, lo |-> 5])
          /\ (Len(argv) > 1 /\ argv[2] = <<"2">> => elapsed = [neg |-> FALSE, hi |-> 0, lo |-> 2])
          /\ (Len(argv) > 1 /\ argv[2] = <<"0", "2", "2">> => elapsed = [neg |-> FALSE, hi |-> 0, lo |-> 22])

C9_Witness ==
    /\ pc = "print"
    /\ argv = <<ProgName, <<"2", "_", "2">>>>
    /\ elapsed = BigNat(22)

\* C10: an argument that parses as a negative integer is rejected by the sleep
\* primitive: the process exits non-zero and never prints done, the negative
\* duration is not taken as a zero delay.
C10_NegativeRejected ==
    (Len(argv) > 1 /\ IsIntLiteral(argv[2]) /\ IntOf(argv[2]).neg) =>
        /\ stdout = <<>>
        /\ elapsed = NoBig
        /\ pc \in {"start", "sleep", "exited"}
        /\ (pc = "exited" =>
                /\ exitCode # 0
                /\ sleepCalls = 1
                /\ stderr \in {"ValueError", "OverflowError"})

C10_Witness ==
    /\ pc = "exited"
    /\ argv = <<ProgName, <<"-", "2">>>>
    /\ stderr = "ValueError"
    /\ exitCode = 1

====
